---- MODULE Spec2Model ----
(***************************************************************************)
(* Model of the GWAS summary-statistics QC pipeline, src/1.QC/QC.py.       *)
(*                                                                         *)
(* Numbers.  A cell of the columns chr and pos is a float until the        *)
(* integer cast of lines 89 and 95; a float is held here in units of       *)
(* 1/FloatUnit, an integer in whole units, so that astype(int) is the      *)
(* truncation x \div FloatUnit.  eaf is held in units of 1/EafOne.  The     *)
(* other value columns only matter as parsable / unparsable / missing.     *)
(***************************************************************************)
EXTENDS Integers, Sequences, FiniteSets, TLC

\* ---------------------------------------------------------------- bounds
NFiles  == 2    \* input files of the batch specification
MaxRows == 2    \* rows of the input table of the single-file specification
MaxRuns == 2    \* runs of the orchestrator over the same input directory

\* ------------------------------------------------- configuration (8-25)
MHC_CHROM == "6"
MHC_START == 28477797
MHC_END == 33448354
EafOne == 1000
MAF_THRESHOLD == 10
CRITICAL_COLS == <<"SNP", "effect_allele", "other_allele", "eaf", "beta", "se", "pval", "chr", "pos">>
numeric_cols == <<"eaf", "beta", "se", "pval", "chr", "pos">>
fuma_cols == {"SNP", "chr", "pos", "effect_allele", "other_allele", "pval", "beta", "se", "samplesize"}
Builds == {"hg38", "hg19", "hg18"}

\* ------------------------------------------------------------ cell values
NA == -1          \* NaN, a missing cell
Garbage == -2     \* a token of the file that does not parse as a number
FloatUnit == 2

Range(s) == {s[k] : k \in 1..Len(s)}

\* pd.to_numeric(errors='coerce') on one token
\* (variant: no coercion, an unparsable token stays in the column)
to_numeric_nocoerce(t) == t
to_numeric(t) == IF t = Garbage THEN NA ELSE t

\* astype(int) on one float cell (truncation)
astype_int(x) == x \div FloatUnit

\* astype(str) on one integer cell
astype_str(n) == ToString(n)

\* ------------------------------------------------------------- data frames
\* A data frame: its columns and its rows in order; a row carries its index
\* label idx (the RangeIndex of read_csv, kept by dropna, loc and the masks).
MkDf(cols, rows) == [cols |-> cols, rows |-> rows]
NoDf == MkDf({}, <<>>)

SetCol(r, c, x) == [idx |-> r.idx, v |-> [k \in (DOMAIN r.v) \cup {c} |-> IF k = c THEN x ELSE r.v[k]]]
DelCol(r, c) == [idx |-> r.idx, v |-> [k \in (DOMAIN r.v) \ {c} |-> r.v[k]]]
MapRows(rows, Op(_)) == [k \in 1..Len(rows) |-> Op(rows[k])]
DropCol(df, c) == MkDf(df.cols \ {c}, MapRows(df.rows, LAMBDA r : DelCol(r, c)))
Indexes(df) == {df.rows[k].idx : k \in 1..Len(df.rows)}

\* pd.read_csv: the table of a readable file, indexed 0..n-1
read_csv(content) ==
    MkDf(content.cols, [k \in 1..Len(content.rows) |-> [idx |-> k - 1, v |-> content.rows[k]]])

\* lines 76-80
CoerceNumeric(df) ==
    MkDf(df.cols,
         MapRows(df.rows, LAMBDA r :
             [idx |-> r.idx,
              v |-> [k \in DOMAIN r.v |-> IF k \in Range(numeric_cols) THEN to_numeric(r.v[k]) ELSE r.v[k]]]))

\* lines 83-84
existing_check_cols(df) == {c \in Range(CRITICAL_COLS) : c \in df.cols}
dropna(df) ==
    MkDf(df.cols, SelectSeq(df.rows, LAMBDA r : \A c \in existing_check_cols(df) : r.v[c] # NA))

\* lines 88-96
CastPos(df) ==
    IF "pos" \in df.cols
    THEN MkDf(df.cols \cup {"pos_original"},
              MapRows(df.rows, LAMBDA r :
                  SetCol(SetCol(r, "pos", astype_int(r.v["pos"])), "pos_original", astype_int(r.v["pos"]))))
    ELSE df
CastChr(df) ==
    IF "chr" \in df.cols
    THEN MkDf(df.cols \cup {"temp_chr"},
              MapRows(df.rows, LAMBDA r :
                  SetCol(SetCol(r, "chr", astype_int(r.v["chr"])), "temp_chr", astype_str(astype_int(r.v["chr"])))))
    ELSE df

\* lines 76-96: the cleaning stage
Clean(df) == CastChr(CastPos(dropna(CoerceNumeric(df))))

\* ------------------------------------------------------ Coordinate Mapper
\* LiftOver.convert_coordinate(chrom, pos): the list of hits of the chain, each
\* <<chromosome, position>>, empty when the position is unmapped (or None when
\* the chromosome is unknown: both are falsy at lines 123 and 222).  The chain
\* data is outside the repository; this pair of sample chains has a shift into
\* and out of the region, unmapped positions, a hit on another chromosome and
\* a position with two hits.
lo_38_to_19(chrom, pos) ==
    CASE chrom = "chr6" /\ pos = MHC_START - 1 -> << <<"chr6", MHC_START>> >>
      [] chrom = "chr6" /\ pos = MHC_START     -> << <<"chr6", MHC_START - 1>> >>
      [] chrom = "chr6" /\ pos = MHC_END       -> << >>
      [] chrom = "chr6" /\ pos = MHC_END + 1   -> << <<"chr6", MHC_END + 1>>, <<"chr5", MHC_END>> >>
      [] chrom = "chr5" /\ pos = MHC_START - 1 -> << <<"chr5", MHC_START - 1>> >>
      [] chrom = "chr5" /\ pos = MHC_START     -> << <<"chr6", MHC_START>> >>
      [] OTHER -> << >>

lo_19_to_38(chrom, pos) ==
    CASE chrom = "chr6" /\ pos = MHC_START - 1 -> << <<"chr6", MHC_START>> >>
      [] chrom = "chr6" /\ pos = MHC_START     -> << <<"chr6", MHC_START>> >>
      [] chrom = "chr6" /\ pos = MHC_END       -> << <<"chr6", MHC_END>> >>
      [] chrom = "chr6" /\ pos = MHC_END + 1   -> << >>
      [] chrom = "chr5" /\ pos = MHC_START - 1 -> << <<"chr5", MHC_START - 1>> >>
      [] chrom = "chr5" /\ pos = MHC_START     -> << <<"chr5", MHC_END>>, <<"chr5", MHC_START>> >>
      [] OTHER -> << >>

convert_coordinate(chain, chrom, pos) ==
    IF chain = "38to19" THEN lo_38_to_19(chrom, pos) ELSE lo_19_to_38(chrom, pos)

\* f"chr{chrom}", lines 121 and 220
convert_chrom(r) == "chr" \o r.v["temp_chr"]

\* The conversion loop of lines 113-128 and 212-227: the rows with a hit, in
\* order, each with pos set to the position of the first hit.
LiftRows(chain, df) ==
    MkDf(df.cols,
         MapRows(SelectSeq(df.rows, LAMBDA r : convert_coordinate(chain, convert_chrom(r), r.v["pos"]) # << >>),
                 LAMBDA r : SetCol(r, "pos", convert_coordinate(chain, convert_chrom(r), r.v["pos"])[1][2])))

\* The chain queries the loop makes for file f
LiftCalls(chain, f, df) == {<<f, chain, convert_chrom(df.rows[k]), df.rows[k].v["pos"]>> : k \in 1..Len(df.rows)}

\* ------------------------------------------------------------------ filters
\* lines 145-148
\* (variant: the start of the region taken as exclusive)
InMHC_open_start(r) == r.v["temp_chr"] = MHC_CHROM /\ r.v["pos"] > MHC_START /\ r.v["pos"] <= MHC_END
InMHC(r) == r.v["temp_chr"] = MHC_CHROM /\ r.v["pos"] >= MHC_START /\ r.v["pos"] <= MHC_END

\* lines 151-154
Min(a, b) == IF a <= b THEN a ELSE b
maf(eaf) == Min(eaf, EafOne - eaf)
LowMaf(r) == maf(r.v["eaf"]) < MAF_THRESHOLD

\* lines 145-160
Filter(df) ==
    DropCol(MkDf(df.cols, SelectSeq(SelectSeq(df.rows, LAMBDA r : ~InMHC(r)), LAMBDA r : ~LowMaf(r))), "temp_chr")

\* ------------------------------------------------------------------ exports
\* line 165
OutHg19(dfh) == DropCol(dfh, "pos_original")

\* lines 176-184: the FUMA table, columns selected and renamed
FumaName(c) ==
    CASE c = "SNP" -> "SNP" [] c = "chr" -> "CHR" [] c = "pos" -> "BP"
      [] c = "effect_allele" -> "A1" [] c = "other_allele" -> "A2"
      [] c = "pval" -> "P" [] c = "beta" -> "BETA" [] c = "se" -> "SE" [] c = "samplesize" -> "N"
missing_cols(dfh) == {c \in fuma_cols : c \notin dfh.cols}
OutFuma(dfh) ==
    MkDf({FumaName(c) : c \in fuma_cols},
         MapRows(dfh.rows, LAMBDA r :
             [idx |-> r.idx,
              v |-> [n \in {FumaName(c) : c \in fuma_cols} |-> r.v[CHOOSE c \in fuma_cols : FumaName(c) = n]]]))

\* lines 193-200: input already hg38, the cached coordinate is restored
\* (variant: the hg19 position is left in place)
OutHg38_keep_pos(dfh) == DropCol(dfh, "pos_original")
\* (variant: the hg19 positions are lifted back to hg38, as for hg19 input)
OutHg38_relift(dfh) ==
    DropCol(DropCol(LiftRows("19to38", MkDf(dfh.cols \cup {"temp_chr"}, MapRows(dfh.rows, LAMBDA r : SetCol(r, "temp_chr", astype_str(r.v["chr"]))))), "temp_chr"), "pos_original")
OutHg38_from38(dfh) ==
    DropCol(MkDf(dfh.cols, MapRows(dfh.rows, LAMBDA r : SetCol(r, "pos", r.v["pos_original"]))), "pos_original")

\* lines 203-232: input hg19, the filtered rows are lifted to hg38.  The cast
\* of line 209 acts on the int64 column of line 95 and changes no value.
WithTempChr(dfh) ==
    MkDf(dfh.cols \cup {"temp_chr"}, MapRows(dfh.rows, LAMBDA r : SetCol(r, "temp_chr", astype_str(r.v["chr"]))))
OutHg38_from19(dfh) ==
    DropCol(LiftRows("19to38", WithTempChr(DropCol(dfh, "pos_original"))), "temp_chr")

\* ------------------------------------------------------------------ inputs
AllCols == Range(CRITICAL_COLS) \cup {"samplesize"}
Float(n) == n * FloatUnit      \* the float token of the integer n

\* One line of an input file, all ten columns
RawRow(chr, pos, eaf, snp) ==
    [SNP |-> snp, effect_allele |-> 0, other_allele |-> 0, eaf |-> eaf, beta |-> 0,
     se |-> 0, pval |-> 0, chr |-> chr, pos |-> pos, samplesize |-> 0]
OnCols(r, cols) == [c \in cols |-> r[c]]

Unreadable == [readable |-> FALSE, cols |-> {}, rows |-> << >>]
Table(cols, rows) == [readable |-> TRUE, cols |-> cols, rows |-> [k \in 1..Len(rows) |-> OnCols(rows[k], cols)]]

GoodRow == RawRow(Float(5), Float(MHC_START - 1), 300, 0)
RowSet ==
    {RawRow(Float(6), Float(p), 300, 0) : p \in {MHC_START - 1, MHC_START, MHC_END, MHC_END + 1}}
    \cup {RawRow(Float(5), Float(MHC_START), 300, 0)}
    \cup {RawRow(Float(5), Float(MHC_START - 1), e, 0) : e \in {9, 10, 990, 991, 1500}}
    \cup {RawRow(Float(5), Garbage, 300, 0), RawRow(Float(6) + 1, Float(MHC_START) - 1, 300, 0)}
ColSets == {AllCols, AllCols \ {"samplesize"}, AllCols \ {"pos"}}

SeqsUpTo(S, n) == UNION {[1..k -> S] : k \in 0..n}
RowContents == {Unreadable} \cup {Table(cols, rows) : cols \in ColSets, rows \in SeqsUpTo(RowSet, MaxRows)}
BatchContents ==
    {Unreadable,
     Table(AllCols, <<GoodRow>>),
     Table(AllCols, <<RawRow(Garbage, Float(MHC_START), 300, 0)>>),
     Table(AllCols \ {"chr"}, <<GoodRow>>),
     Table(AllCols \ {"eaf"}, <<GoodRow>>),
     Table(AllCols \ {"samplesize"}, <<RawRow(Float(6), Float(MHC_END), 300, 0), GoodRow>>)}

\* -------------------------------------------------------------------- state
VARIABLES
    INPUT_BUILD,   \* line 13
    files,         \* the *.txt files of INPUT_FOLDER in glob order, by content
    dir19, dir38, dirFuma,   \* 1.hg19, 2.hg38, 3.FUMA: file name -> table written
    pc,            \* position of the process in main(); "idle" when not running
    ended,         \* how the last run ended
    run,           \* number of runs started
    i,             \* loop index of line 46
    df, df_hg19,   \* the tables in memory
    seen,          \* history: file visited in this run -> which outputs existed then
    log,           \* history: <<file, event>> of this run
    calls,         \* history: chain queries of this run
    pass19, pass38,   \* history: file name -> run that wrote it
    prev           \* history: the output directories and ending of the run before

vars == <<INPUT_BUILD, files, dir19, dir38, dirFuma, pc, ended, run, i, df, df_hg19,
          seen, log, calls, pass19, pass38, prev>>
inputs == <<INPUT_BUILD, files>>
hist == <<seen, log, calls, pass19, pass38, prev>>

Empty == [k \in {} |-> 0]
Put(d, k, x) == [n \in (DOMAIN d) \cup {k} |-> IF n = k THEN x ELSE d[n]]
Names == 1..Len(files)
Outputs == [hg19 |-> dir19, hg38 |-> dir38, fuma |-> dirFuma]

InitWith(contents, n) ==
    /\ INPUT_BUILD \in Builds
    /\ files \in [1..n -> contents]
    /\ dir19 = Empty /\ dir38 = Empty /\ dirFuma = Empty
    /\ pc = "idle" /\ ended = "none" /\ run = 0 /\ i = 0
    /\ df = NoDf /\ df_hg19 = NoDf
    /\ seen = Empty /\ log = {} /\ calls = {}
    /\ pass19 = Empty /\ pass38 = Empty
    /\ prev = [out |-> [hg19 |-> Empty, hg38 |-> Empty, fuma |-> Empty], ended |-> "none"]

Init == InitWith(BatchContents, NFiles)
InitRows == InitWith(RowContents, 1)

\* -------------------------------------------------------------- orchestrator
\* lines 53-54: the completion check
\* (variants: the check looks into 1.hg19; there is no check)
final_output_exists_hg19(f) == f \in DOMAIN dir19
final_output_exists_never(f) == FALSE
final_output_exists(f) == f \in DOMAIN dir38

\* The order of the three writes, lines 168, 185, 200/232
\* (variant: 2.hg38 written first)
ExportOrder_38first == <<"write38", "writeFuma", "write19">>
ExportOrder == <<"write19", "writeFuma", "write38">>
StageAfter(s) ==
    IF s = "filter" THEN ExportOrder[1]
    ELSE IF s = ExportOrder[3] THEN "loop"
    ELSE ExportOrder[(CHOOSE k \in 1..2 : ExportOrder[k] = s) + 1]

\* control leaves the body of the loop: the next file
NextFile(ev) ==
    /\ pc' = "loop" /\ i' = i + 1
    /\ df' = NoDf /\ df_hg19' = NoDf
    /\ log' = log \cup ev
Goto(s) ==
    IF s = "loop"
    THEN pc' = "loop" /\ i' = i + 1 /\ df' = NoDf /\ df_hg19' = NoDf
    ELSE pc' = s /\ i' = i /\ UNCHANGED <<df, df_hg19>>
\* an uncaught exception ends the process
Raise ==
    /\ pc' = "idle" /\ ended' = "crashed"
    /\ df' = NoDf /\ df_hg19' = NoDf
    /\ log' = log \cup {<<i, "crash">>}
    /\ UNCHANGED <<inputs, dir19, dir38, dirFuma, run, i, seen, calls, pass19, pass38, prev>>

\* lines 28-33: a run starts
StartRun ==
    /\ pc = "idle" /\ run < MaxRuns
    /\ pc' = "chains" /\ run' = run + 1 /\ i' = 0
    /\ seen' = Empty /\ log' = {} /\ calls' = {}
    /\ prev' = [out |-> Outputs, ended |-> ended]
    /\ UNCHANGED <<inputs, dir19, dir38, dirFuma, ended, df, df_hg19, pass19, pass38>>

\* lines 36-38, 43-44
LoadChains ==
    /\ pc = "chains"
    /\ pc' = "loop" /\ i' = 1
    /\ UNCHANGED <<inputs, dir19, dir38, dirFuma, ended, run, df, df_hg19, hist>>

\* lines 39-41
LoadChainsFail ==
    /\ pc = "chains"
    /\ pc' = "idle" /\ ended' = "chainfail"
    /\ UNCHANGED <<inputs, dir19, dir38, dirFuma, run, i, df, df_hg19, hist>>

\* line 235
LoopEnd ==
    /\ pc = "loop" /\ i > Len(files)
    /\ pc' = "idle" /\ ended' = "done"
    /\ UNCHANGED <<inputs, dir19, dir38, dirFuma, run, i, df, df_hg19, hist>>

Visit == seen' = Put(seen, i, [hg19 |-> i \in DOMAIN dir19, hg38 |-> i \in DOMAIN dir38])

\* lines 46-56
Skip ==
    /\ pc = "loop" /\ i \in Names
    /\ final_output_exists(i)
    /\ Visit /\ NextFile({<<i, "skip">>})
    /\ UNCHANGED <<inputs, dir19, dir38, dirFuma, ended, run, calls, pass19, pass38, prev>>

\* lines 46-69, the read succeeds
ReadOk ==
    /\ pc = "loop" /\ i \in Names
    /\ ~final_output_exists(i)
    /\ files[i].readable
    /\ Visit
    /\ df' = read_csv(files[i]) /\ pc' = "clean"
    /\ log' = log \cup {<<i, "read">>}
    /\ UNCHANGED <<inputs, dir19, dir38, dirFuma, ended, run, i, df_hg19, calls, pass19, pass38, prev>>

\* lines 46-67, the read raises
ReadFail ==
    /\ pc = "loop" /\ i \in Names
    /\ ~final_output_exists(i)
    /\ ~files[i].readable
    /\ Visit /\ NextFile({<<i, "read">>, <<i, "FailedRead">>})
    /\ UNCHANGED <<inputs, dir19, dir38, dirFuma, ended, run, calls, pass19, pass38, prev>>

\* lines 76-104, rows remain
CleanOk ==
    /\ pc = "clean"
    /\ Len(Clean(df).rows) # 0
    /\ df' = Clean(df) /\ pc' = "harmonize"
    /\ log' = log \cup {<<i, "clean">>}
    /\ UNCHANGED <<inputs, dir19, dir38, dirFuma, ended, run, i, df_hg19, seen, calls, pass19, pass38, prev>>

\* lines 76-104, no row remains
CleanEmpty ==
    /\ pc = "clean"
    /\ Len(Clean(df).rows) = 0
    /\ NextFile({<<i, "clean">>, <<i, "FailedEmpty">>})
    /\ UNCHANGED <<inputs, dir19, dir38, dirFuma, ended, run, seen, calls, pass19, pass38, prev>>

\* lines 111-129: input hg38, lifted to hg19
Harmonize38 ==
    /\ pc = "harmonize" /\ INPUT_BUILD = "hg38"
    /\ {"temp_chr", "pos"} \subseteq df.cols
    /\ df_hg19' = LiftRows("38to19", df)
    /\ calls' = calls \cup LiftCalls("38to19", i, df)
    /\ pc' = "filter"
    /\ log' = log \cup {<<i, "harmonize">>}
    /\ UNCHANGED <<inputs, dir19, dir38, dirFuma, ended, run, i, df, seen, pass19, pass38, prev>>

\* lines 116-117: KeyError, the table has no chr or no pos column
Harmonize38Raise ==
    /\ pc = "harmonize" /\ INPUT_BUILD = "hg38"
    /\ ~({"temp_chr", "pos"} \subseteq df.cols)
    /\ Raise

\* lines 131-133: input hg19
Harmonize19 ==
    /\ pc = "harmonize" /\ INPUT_BUILD = "hg19"
    /\ df_hg19' = df
    /\ pc' = "filter"
    /\ log' = log \cup {<<i, "harmonize">>}
    /\ UNCHANGED <<inputs, dir19, dir38, dirFuma, ended, run, i, df, seen, calls, pass19, pass38, prev>>

\* lines 135-137: any other build tag
HarmonizeBadBuild ==
    /\ pc = "harmonize" /\ INPUT_BUILD \notin {"hg38", "hg19"}
    /\ NextFile({<<i, "BadBuild">>})
    /\ UNCHANGED <<inputs, dir19, dir38, dirFuma, ended, run, seen, calls, pass19, pass38, prev>>

\* lines 142-160
FilterOk ==
    /\ pc = "filter"
    /\ {"temp_chr", "pos", "eaf"} \subseteq df_hg19.cols
    /\ df_hg19' = Filter(df_hg19)
    /\ pc' = StageAfter("filter")
    /\ log' = log \cup {<<i, "filter">>}
    /\ UNCHANGED <<inputs, dir19, dir38, dirFuma, ended, run, i, df, seen, calls, pass19, pass38, prev>>

\* lines 145-151: KeyError, the table has no chr, pos or eaf column
FilterRaise ==
    /\ pc = "filter"
    /\ ~({"temp_chr", "pos", "eaf"} \subseteq df_hg19.cols)
    /\ Raise

\* lines 165-168
WriteHg19 ==
    /\ pc = "write19"
    /\ dir19' = Put(dir19, i, OutHg19(df_hg19))
    /\ pass19' = Put(pass19, i, run)
    /\ Goto(StageAfter("write19"))
    /\ log' = log \cup {<<i, "write19">>}
    /\ UNCHANGED <<inputs, dir38, dirFuma, ended, run, seen, calls, pass38, prev>>

\* lines 173-185, every FUMA column is there
WriteFuma ==
    /\ pc = "writeFuma"
    /\ missing_cols(df_hg19) = {}
    /\ dirFuma' = Put(dirFuma, i, OutFuma(df_hg19))
    /\ Goto(StageAfter("writeFuma"))
    /\ log' = log \cup {<<i, "writeFuma">>}
    /\ UNCHANGED <<inputs, dir19, dir38, ended, run, seen, calls, pass19, pass38, prev>>

\* lines 173-182, a FUMA column is missing: no FUMA file
NoFuma ==
    /\ pc = "writeFuma"
    /\ missing_cols(df_hg19) # {}
    /\ Goto(StageAfter("writeFuma"))
    /\ UNCHANGED <<inputs, dir19, dir38, dirFuma, ended, run, hist>>

\* lines 190-201: input hg38
WriteHg38From38 ==
    /\ pc = "write38" /\ INPUT_BUILD = "hg38"
    /\ dir38' = Put(dir38, i, OutHg38_from38(df_hg19))
    /\ pass38' = Put(pass38, i, run)
    /\ Goto(StageAfter("write38"))
    /\ log' = log \cup {<<i, "write38">>}
    /\ UNCHANGED <<inputs, dir19, dirFuma, ended, run, seen, calls, pass19, prev>>

\* lines 190-193, 203-233: input hg19
WriteHg38From19 ==
    /\ pc = "write38" /\ INPUT_BUILD = "hg19"
    /\ dir38' = Put(dir38, i, OutHg38_from19(df_hg19))
    /\ pass38' = Put(pass38, i, run)
    /\ calls' = calls \cup LiftCalls("19to38", i, WithTempChr(df_hg19))
    /\ Goto(StageAfter("write38"))
    /\ log' = log \cup {<<i, "write38">>}
    /\ UNCHANGED <<inputs, dir19, dirFuma, ended, run, seen, pass19, prev>>

\* The process is killed between two steps (an interrupt, a full disk, a
\* power loss): memory is lost, the files written so far stay.
Abort ==
    /\ pc # "idle"
    /\ pc' = "idle" /\ ended' = "aborted"
    /\ df' = NoDf /\ df_hg19' = NoDf
    /\ UNCHANGED <<inputs, dir19, dir38, dirFuma, run, i, hist>>

Next ==
    \/ StartRun \/ LoadChains \/ LoadChainsFail \/ LoopEnd
    \/ Skip \/ ReadOk \/ ReadFail
    \/ CleanOk \/ CleanEmpty
    \/ Harmonize38 \/ Harmonize38Raise \/ Harmonize19 \/ HarmonizeBadBuild
    \/ FilterOk \/ FilterRaise
    \/ WriteHg19 \/ WriteFuma \/ NoFuma \/ WriteHg38From38 \/ WriteHg38From19
    \/ Abort

\* The pipeline without the outside kill: what main() itself does
NextRows ==
    \/ StartRun \/ LoadChains \/ LoadChainsFail \/ LoopEnd
    \/ Skip \/ ReadOk \/ ReadFail
    \/ CleanOk \/ CleanEmpty
    \/ Harmonize38 \/ Harmonize38Raise \/ Harmonize19 \/ HarmonizeBadBuild
    \/ FilterOk \/ FilterRaise
    \/ WriteHg19 \/ WriteFuma \/ NoFuma \/ WriteHg38From38 \/ WriteHg38From19

\* Spec: a batch of NFiles files, runs, kills and re-runs.
\* SpecRows: one file with any table of up to MaxRows lines, runs and re-runs.
Spec == Init /\ [][Next]_vars
SpecRows == InitRows /\ [][NextRows]_vars

\* ------------------------------------------------------------------ claims
EventsOf(f) == {e[2] : e \in {x \in log : x[1] = f}}
CallsOf(f) == {c \in calls : c[1] = f}
FilesOf(o, f) ==
    [hg19 |-> IF f \in DOMAIN o.hg19 THEN <<o.hg19[f]>> ELSE << >>,
     hg38 |-> IF f \in DOMAIN o.hg38 THEN <<o.hg38[f]>> ELSE << >>,
     fuma |-> IF f \in DOMAIN o.fuma THEN <<o.fuma[f]>> ELSE << >>]
RowAt(d, x) == CHOOSE r \in Range(d.rows) : r.idx = x
WriteEvents == {"write19", "writeFuma", "write38"}
\* two exports of one filtered table: same columns, the rows of b among those
\* of a, equal in every column but the position
SameSnapshot(a, b) ==
    /\ a.cols = b.cols
    /\ Indexes(b) \subseteq Indexes(a)
    /\ \A k \in 1..Len(b.rows) : \A c \in b.cols \ {"pos"} : RowAt(a, b.rows[k].idx).v[c] = b.rows[k].v[c]
\* the FUMA export fu has the rows of a, under the FUMA column names
SameRowsFuma(a, fu) ==
    /\ Len(a.rows) = Len(fu.rows)
    /\ \A k \in 1..Len(a.rows) :
          /\ a.rows[k].idx = fu.rows[k].idx
          /\ fu.rows[k].v["SNP"] = a.rows[k].v["SNP"] /\ fu.rows[k].v["CHR"] = a.rows[k].v["chr"]
          /\ fu.rows[k].v["BP"] = a.rows[k].v["pos"] /\ fu.rows[k].v["A1"] = a.rows[k].v["effect_allele"]
          /\ fu.rows[k].v["A2"] = a.rows[k].v["other_allele"] /\ fu.rows[k].v["P"] = a.rows[k].v["pval"]
          /\ fu.rows[k].v["BETA"] = a.rows[k].v["beta"] /\ fu.rows[k].v["SE"] = a.rows[k].v["se"]
          /\ fu.rows[k].v["N"] = a.rows[k].v["samplesize"]
\* the run loaded its chains and was not killed from outside
RanToEnd(e) == e \in {"done", "crashed"}

\* C1: in every run, also one after aborted runs, a file whose 2.hg38 output
\* exists when it is visited is only skipped (no read, no chain query, its
\* three output files as they were when the run started), and a file visited
\* without that output is read again from the input file, and when it reaches
\* its last write every stage and both table exports were redone in this run.
C1_Resumability ==
    \A f \in DOMAIN seen :
        /\ seen[f].hg38 =>
              /\ EventsOf(f) = {"skip"}
              /\ CallsOf(f) = {}
              /\ FilesOf(Outputs, f) = FilesOf(prev.out, f)
        /\ ~seen[f].hg38 =>
              /\ "read" \in EventsOf(f) /\ "skip" \notin EventsOf(f)
              /\ (pc = "clean" /\ i = f => df = read_csv(files[f]))
              /\ ("write38" \in EventsOf(f) =>
                     /\ {"clean", "harmonize", "filter", "write19"} \subseteq EventsOf(f)
                     /\ pass19[f] = run /\ pass38[f] = run)

\* C1 witness: a run after an aborted one skips a finished file and redoes to
\* the end a file that had only its 1.hg19 output.
C1_Witness ==
    /\ prev.ended = "aborted"
    /\ \E f \in DOMAIN seen : seen[f].hg38 /\ "skip" \in EventsOf(f)
    /\ \E f \in DOMAIN seen : seen[f].hg19 /\ ~seen[f].hg38 /\ "write38" \in EventsOf(f)

C3_Original ==
    \A f \in DOMAIN seen :
        seen[f].hg19 =>
            /\ EventsOf(f) \cap WriteEvents = {}
            /\ CallsOf(f) = {}
            /\ FilesOf(Outputs, f) = FilesOf(prev.out, f)

\* C3 amended: a file whose 2.hg38 output exists when it is visited is
\* skipped: no write to any output directory, no chain query.
C3_SkipOnFinalOutput ==
    \A f \in DOMAIN seen :
        seen[f].hg38 =>
            /\ EventsOf(f) \cap WriteEvents = {}
            /\ CallsOf(f) = {}
            /\ FilesOf(Outputs, f) = FilesOf(prev.out, f)

\* C3 witness: a visited file had its 2.hg38 output and the loop went past it.
C3_Witness ==
    \E f \in DOMAIN seen : seen[f].hg38 /\ seen[f].hg19 /\ i > f

\* C4 as claimed: a run that loaded both chains and was not killed from
\* outside has visited every discovered file when it ends.
C4_BatchContinuation ==
    (pc = "idle" /\ RanToEnd(ended)) => DOMAIN seen = Names

\* C10: a 2.hg38 file implies the 1.hg19 file of the same name, written by the
\* same pass from the same filtered table (same columns, its rows among those
\* of the 1.hg19 file, equal in every column but the position).
C10_MarkerLast ==
    \A f \in DOMAIN dir38 :
        /\ f \in DOMAIN dir19
        /\ pass19[f] = pass38[f]
        /\ SameSnapshot(dir19[f], dir38[f])

\* C10 witness: a file finished in a second pass, over the 1.hg19 file an
\* aborted pass had left.
C10_Witness ==
    \E f \in DOMAIN dir38 : pass38[f] = 2 /\ f \in DOMAIN prev.out.hg19 /\ Len(dir38[f].rows) > 0

\* The table file f has after the cleaning stage, and its reference view
Cleaned(f) == Clean(read_csv(files[f]))
RefView(f) == IF INPUT_BUILD = "hg38" THEN LiftRows("38to19", Cleaned(f)) ELSE Cleaned(f)
\* Rows of the reference view outside the exclusion region with maf >= threshold
Survivors(f) ==
    {x.idx : x \in {r \in Range(RefView(f).rows) :
        /\ ~(r.v["temp_chr"] = MHC_CHROM /\ MHC_START <= r.v["pos"] /\ r.v["pos"] <= MHC_END)
        /\ r.v["eaf"] >= MAF_THRESHOLD /\ EafOne - r.v["eaf"] >= MAF_THRESHOLD}}

\* C5: for a file with all exports written, the FUMA file (when there is one)
\* has the rows of the 1.hg19 file, the rows of the 2.hg38 file are among
\* those of the 1.hg19 file and agree with them outside the position, a row
\* of the 1.hg19 file is missing from the 2.hg38 file only when the input is
\* hg19 and the hg19->hg38 chain has no hit for it, and for hg38 input the two
\* files have the same rows.
C5_ExportConsistency ==
    \A f \in DOMAIN dir38 :
        /\ f \in DOMAIN dir19
        /\ f \in DOMAIN dirFuma => SameRowsFuma(dir19[f], dirFuma[f])
        /\ SameSnapshot(dir19[f], dir38[f])
        /\ \A k \in 1..Len(dir19[f].rows) :
              dir19[f].rows[k].idx \notin Indexes(dir38[f]) =>
                  /\ INPUT_BUILD = "hg19"
                  /\ lo_19_to_38("chr" \o ToString(dir19[f].rows[k].v["chr"]), dir19[f].rows[k].v["pos"]) = << >>
        /\ INPUT_BUILD = "hg38" => Indexes(dir38[f]) = Indexes(dir19[f])

\* C5 witness: all three files of a file are written, under hg19 with a row
\* lost to the mapping and one kept.
C5_Witness ==
    \E f \in DOMAIN dir38 :
        /\ f \in DOMAIN dirFuma /\ INPUT_BUILD = "hg19"
        /\ Len(dir38[f].rows) = 1 /\ Len(dir19[f].rows) = 2

\* C6 as claimed: every row handed to the harmonization stage has a value in
\* each of the nine critical fields and an eaf within [0, 1].
C6_Original ==
    pc = "harmonize" =>
        \A k \in 1..Len(df.rows) :
            /\ \A c \in Range(CRITICAL_COLS) : c \in df.cols /\ df.rows[k].v[c] \notin {NA, Garbage}
            /\ 0 <= df.rows[k].v["eaf"] /\ df.rows[k].v["eaf"] <= EafOne

\* C6 amended: every row handed to the harmonization stage has a value in
\* each critical column the table has, its pos is the integer part of the
\* number in the file (and is cached as pos_original), its chr the integer
\* part and temp_chr that integer as a string; eaf is not range-checked by
\* the cleaning, but no row of a 1.hg19 export has an eaf outside [0, 1].
C6_CleaningInvariant ==
    /\ pc = "harmonize" =>
          \A k \in 1..Len(df.rows) :
              LET r == df.rows[k]
                  raw == files[i].rows[r.idx + 1]
              IN  /\ \A c \in Range(CRITICAL_COLS) \cap df.cols : r.v[c] \notin {NA, Garbage}
                  /\ "pos" \in df.cols =>
                        /\ Float(r.v["pos"]) <= raw["pos"] /\ raw["pos"] < Float(r.v["pos"] + 1)
                        /\ r.v["pos_original"] = r.v["pos"]
                  /\ "chr" \in df.cols =>
                        /\ Float(r.v["chr"]) <= raw["chr"] /\ raw["chr"] < Float(r.v["chr"] + 1)
                        /\ r.v["temp_chr"] = ToString(r.v["chr"])
    /\ \A f \in DOMAIN dir19 : \A k \in 1..Len(dir19[f].rows) :
          0 <= dir19[f].rows[k].v["eaf"] /\ dir19[f].rows[k].v["eaf"] <= EafOne

\* C6 witness: the cleaning dropped a row and kept one with eaf above 1.
C6_Witness ==
    /\ pc = "harmonize" /\ AllCols \subseteq df.cols
    /\ Len(df.rows) = 1 /\ Len(files[i].rows) = 2
    /\ df.rows[1].v["eaf"] > EafOne

\* C7: the rows of the 1.hg19 export are exactly the rows of the reference
\* view outside [MHC_START, MHC_END] on chromosome 6 whose maf is at least the
\* threshold.
C7_FilterExact ==
    \A f \in DOMAIN dir19 : Indexes(dir19[f]) = Survivors(f)

\* C7 witness: an export that lost a row at the start of the region and kept
\* a row whose maf equals the threshold.
C7_Witness ==
    \E f \in DOMAIN dir19 :
        /\ \E r \in Range(RefView(f).rows) :
              r.v["temp_chr"] = "6" /\ r.v["pos"] = MHC_START /\ r.idx \notin Indexes(dir19[f])
        /\ \E r \in Range(dir19[f].rows) : r.v["eaf"] = EafOne - MAF_THRESHOLD

\* C8 as claimed: for hg38 input every row of the 1.hg19 export carries the
\* chromosome of its hg38->hg19 hit, and that hit is outside the region.
C8_RegionInReferenceCoords ==
    INPUT_BUILD = "hg38" =>
        \A f \in DOMAIN dir19 : \A k \in 1..Len(dir19[f].rows) :
            LET c == RowAt(Cleaned(f), dir19[f].rows[k].idx)
                hit == lo_38_to_19("chr" \o ToString(c.v["chr"]), c.v["pos"])[1]
            IN  /\ hit[1] = "chr" \o ToString(dir19[f].rows[k].v["chr"])
                /\ ~(hit[1] = "chr6" /\ MHC_START <= hit[2] /\ hit[2] <= MHC_END)

\* C9: for hg38 input the hg19->hg38 chain is never queried, the pos_original
\* of a row in memory stays the position the cleaning gave it, and the 2.hg38
\* export has the rows that survived the mapping and both filters, each with
\* the position it had after cleaning.
C9_CachedCoordinate ==
    INPUT_BUILD = "hg38" =>
        /\ \A c \in calls : c[2] # "19to38"
        /\ pc \in {"filter", "write19", "writeFuma", "write38"} =>
              LET cl == Cleaned(i)
              IN  \A k \in 1..Len(df_hg19.rows) :
                      df_hg19.rows[k].v["pos_original"] = RowAt(cl, df_hg19.rows[k].idx).v["pos"]
        /\ \A f \in DOMAIN dir38 :
              LET cl == Cleaned(f)
              IN  /\ Indexes(dir38[f]) = Survivors(f)
                  /\ \A k \in 1..Len(dir38[f].rows) :
                        dir38[f].rows[k].v["pos"] = RowAt(cl, dir38[f].rows[k].idx).v["pos"]

\* C9 witness: an hg38 input whose 2.hg38 export has a row the chain moved and
\* has lost a row, after a chain query.
C9_Witness ==
    /\ INPUT_BUILD = "hg38"
    /\ \E f \in DOMAIN dir38 :
          /\ Len(dir38[f].rows) = 1 /\ Len(files[f].rows) = 2
          /\ dir38[f].rows[1].v["pos"] # RowAt(dir19[f], dir38[f].rows[1].idx).v["pos"]
          /\ pass38[f] = run /\ CallsOf(f) # {}

====
